---- MODULE Spec2Model ----
(***************************************************************************)
(* Model of galind/lottery-checker: the prize-text parser, the single-date *)
(* fetch, the Saturday enumeration and the two aggregation entry points of *)
(* lottery_analyzer.py, with the shared helpers of lottery_utils.py.       *)
(*                                                                         *)
(* Representation.                                                         *)
(*  - A text (Python str) is a sequence of one-character strings.          *)
(*  - A date is its day number counted from a Monday, so that Python's     *)
(*    datetime.weekday() is day % 7 and Saturday is 5.  The program keeps   *)
(*    dates as "%Y-%m-%d" strings, fixed-width, whose order is day order.   *)
(*  - A float amount is an exact decimal [n, d] meaning n / d with d a     *)
(*    power of ten, kept without trailing zeros (1.000 and 1.0 are the     *)
(*    same float).                                                         *)
(***************************************************************************)
EXTENDS Integers, Sequences, FiniteSets, TLC

VARIABLES
    pc,                  \* position of the running entry point
    mode,                \* which entry point runs: "probe", "range", "all", or a pure-function harness
    caller,              \* "main" when main drives the entry points, else "none"
    env_start_date,      \* main: ANALYSIS_START_DATE, <<>> when unset
    env_end_date,        \* main: ANALYSIS_END_DATE, <<>> when unset
    now,                 \* the day datetime.now() last gave (0 before it is read)
    max_lookback_days,   \* find_earliest_available_data argument
    probe_dates,         \* find_earliest_available_data: dates
    earliest_date,       \* what find_earliest_available_data found: <<>> is None
    start_date,          \* analyze_lottery_history / generate_date_range argument
    end_date,            \* analyze_lottery_history / generate_date_range argument
    saturday_dates,      \* analyze_lottery_history: generate_date_range(start_date, end_date)
    idx,                 \* index of the next date of the running for loop
    current_date,        \* fetch_all_available_data: current_date
    remote_data,         \* the Saturdays for which the remote source has data (open-ended walk)
    results,             \* results list of the running aggregation
    total_spent,
    total_won,
    wins,
    biggest_prize,
    last_win_date,       \* <<>> is None, <<d>> is the date d
    consecutive_no_data,
    analysis,            \* <<>> until an entry point returns, then <<LotteryAnalysis>>
    fetch_calls,         \* history: calls of fetch_lottery_data_for_date made by the run
    fetch_misses,        \* history: how many of them returned None
    fetch_log,           \* history: [date, hit] of every fetch the running entry point got back
    in_flight,           \* requests sent and not yet answered
    slept,               \* time.sleep has run since the last request (TRUE before any request)
    back_to_back,        \* history: some request followed the previous one without a sleep
    prize_text,          \* parser harness: the text under classification
    classified,          \* parser harness: [analyzer, utils], each <<>> or <<[won, amount]>>
    response,            \* fetch harness: what the remote source answers
    fetched,             \* fetch harness: [analyzer, utils], each <<>> or <<fetch result>>
    dates                \* enumeration harness: [analyzer, utils], each <<>> or <<list>>

aggVars == <<caller, env_start_date, env_end_date, now, max_lookback_days, probe_dates,
             earliest_date, start_date, end_date, saturday_dates, idx, current_date,
             remote_data, results, total_spent, total_won, wins, biggest_prize, last_win_date,
             consecutive_no_data, analysis, fetch_calls, fetch_misses, fetch_log, in_flight,
             slept, back_to_back>>
parseVars == <<prize_text, classified>>
fetchVars == <<response, fetched>>
rangeVars == <<dates>>
vars == <<pc, mode, aggVars, parseVars, fetchVars, rangeVars>>

(***************************************************************************)
(* Bounds of the model.                                                    *)
(***************************************************************************)
MaxPieces == 4        \* a parser input is a concatenation of at most MaxPieces pieces
DayWindow == 20       \* the enumeration harness draws start and end from 0..DayWindow
Today == 404          \* datetime.now() is one of the days Today..Today+NowSpan (404 is a Saturday)
NowSpan == 2
MaxStart == 6         \* a range aggregation starts on one of the days 0..MaxStart
RangeSpan == 40       \* and its longest range covers RangeSpan days after the start
MaxResults == 2       \* the remote source has data for at most MaxResults Saturdays of a walk
                      \* (open-ended walk, and the range walk when main drives it)
MaxGap == 1           \* open-ended walk: data lies in the first MaxGap + 1 weeks, or in the
                      \* weeks around the distance the stopping rule just tolerates
MaxLookback == 13     \* a direct probe looks back 0, MaxLookback or the default number of days
MaxProbeHit == 2      \* main's probe finds data within its first MaxProbeHit dates, or none

(***************************************************************************)
(* Characters and texts.                                                   *)
(***************************************************************************)
UpperChars == <<"A","B","C","D","E","F","G","H","I","J","K","L","M",
                "N","O","P","Q","R","S","T","U","V","W","X","Y","Z">>
LowerChars == <<"a","b","c","d","e","f","g","h","i","j","k","l","m",
                "n","o","p","q","r","s","t","u","v","w","x","y","z">>
DigitChars == <<"0","1","2","3","4","5","6","7","8","9">>
Whitespace == {" ", "\n", "\t"}

IsDigit(c) == \E i \in 1..10 : DigitChars[i] = c
DigitVal(c) == (CHOOSE i \in 1..10 : DigitChars[i] = c) - 1

\* str.lower()
LowerChar(c) ==
    IF \E i \in 1..26 : UpperChars[i] = c
    THEN LowerChars[CHOOSE i \in 1..26 : UpperChars[i] = c]
    ELSE c
Lower(s) == [i \in 1..Len(s) |-> LowerChar(s[i])]

\* needle in hay
Contains(needle, hay) ==
    \E i \in 1..(Len(hay) - Len(needle) + 1) :
        SubSeq(hay, i, i + Len(needle) - 1) = needle

\* str.replace(a, b) for single characters
Replace(s, a, b) == [i \in 1..Len(s) |-> IF s[i] = a THEN b ELSE s[i]]

\* str.strip()
Strip(s) ==
    IF \A i \in 1..Len(s) : s[i] \in Whitespace THEN <<>>
    ELSE LET a == CHOOSE i \in 1..Len(s) :
                      s[i] \notin Whitespace /\ \A k \in 1..(i-1) : s[k] \in Whitespace
             b == CHOOSE i \in 1..Len(s) :
                      s[i] \notin Whitespace /\ \A k \in (i+1)..Len(s) : s[k] \in Whitespace
         IN SubSeq(s, a, b)

\* " ".join(s.split()): runs of whitespace become one space, the ends are stripped
RECURSIVE Squeeze(_)
Squeeze(s) ==
    IF s = <<>> THEN <<>>
    ELSE IF s[1] \in Whitespace
         THEN IF Len(s) >= 2 /\ s[2] \in Whitespace
              THEN Squeeze(Tail(s))
              ELSE <<" ">> \o Squeeze(Tail(s))
         ELSE <<s[1]>> \o Squeeze(Tail(s))
SplitJoin(s) == Squeeze(Strip(s))

(***************************************************************************)
(* Floats as exact decimals.                                               *)
(***************************************************************************)
RECURSIVE DecNorm(_, _)
DecNorm(n, d) ==
    IF d > 1 /\ n % 10 = 0 THEN DecNorm(n \div 10, d \div 10) ELSE [n |-> n, d |-> d]
Dec(n) == [n |-> n, d |-> 1]
DecMaxD(a, b) == IF a.d >= b.d THEN a.d ELSE b.d
DecAdd(a, b) ==
    LET d == DecMaxD(a, b) IN DecNorm(a.n * (d \div a.d) + b.n * (d \div b.d), d)
DecSub(a, b) ==
    LET d == DecMaxD(a, b) IN DecNorm(a.n * (d \div a.d) - b.n * (d \div b.d), d)
DecLess(a, b) ==
    LET d == DecMaxD(a, b) IN a.n * (d \div a.d) < b.n * (d \div b.d)
\* max(a, b): Python returns the first argument unless the second is greater
DecMax(a, b) == IF DecLess(a, b) THEN b ELSE a

RECURSIVE IntOf(_)
IntOf(ds) == IF ds = <<>> THEN 0 ELSE 10 * IntOf(SubSeq(ds, 1, Len(ds) - 1)) + DigitVal(ds[Len(ds)])
RECURSIVE Pow10(_)
Pow10(k) == IF k = 0 THEN 1 ELSE 10 * Pow10(k - 1)
AllDigits(s) == s # <<>> /\ \A i \in 1..Len(s) : IsDigit(s[i])

\* float(s) for s of the shape digits or digits.digits; anything else raises ValueError
ValueError == [n |-> -1, d |-> 0]
Float(s) ==
    IF AllDigits(s) THEN Dec(IntOf(s))
    ELSE IF \E p \in 2..(Len(s) - 1) :
                /\ s[p] = "."
                /\ AllDigits(SubSeq(s, 1, p - 1))
                /\ AllDigits(SubSeq(s, p + 1, Len(s)))
         THEN LET p == CHOOSE q \in 2..(Len(s) - 1) : s[q] = "."
                  frac == SubSeq(s, p + 1, Len(s))
              IN DecNorm(IntOf(SubSeq(s, 1, p - 1)) * Pow10(Len(frac)) + IntOf(frac),
                         Pow10(Len(frac)))
         ELSE ValueError

(***************************************************************************)
(* re.findall(r'(\d+(?:,\d+)?)\s*€', text)                                 *)
(*                                                                         *)
(* At a position the digit run, the optional ,digits group and the         *)
(* whitespace run are all greedy, and giving any of them back never        *)
(* produces a match (the character after a shortened run is a digit, the   *)
(* one after a dropped group is the comma), so the leftmost match at a     *)
(* position is the greedy one.  findall resumes after the end of a match.  *)
(***************************************************************************)
DigitsEnd(s, i) ==
    CHOOSE j \in i..(Len(s) + 1) :
        /\ \A k \in i..(j - 1) : IsDigit(s[k])
        /\ (j = Len(s) + 1 \/ ~IsDigit(s[j]))
SpaceEnd(s, i) ==
    CHOOSE j \in i..(Len(s) + 1) :
        /\ \A k \in i..(j - 1) : s[k] \in Whitespace
        /\ (j = Len(s) + 1 \/ s[j] \notin Whitespace)
MatchAt(s, i) ==
    LET j == DigitsEnd(s, i)
        k == IF j <= Len(s) /\ s[j] = "," /\ DigitsEnd(s, j + 1) > j + 1
             THEN DigitsEnd(s, j + 1)
             ELSE j
        m == SpaceEnd(s, k)
    IN IF j > i /\ m <= Len(s) /\ s[m] = "€"
       THEN [ok |-> TRUE, group |-> SubSeq(s, i, k - 1), end |-> m + 1]
       ELSE [ok |-> FALSE, group |-> <<>>, end |-> i + 1]
RECURSIVE FindAllFrom(_, _)
FindAllFrom(s, i) ==
    IF i > Len(s) THEN <<>>
    ELSE LET m == MatchAt(s, i)
         IN IF m.ok THEN <<m.group>> \o FindAllFrom(s, m.end)
            ELSE FindAllFrom(s, i + 1)
euro_pattern_findall(s) == FindAllFrom(s, 1)

no_tiene_premio == <<"n","o"," ","t","i","e","n","e"," ","p","r","e","m","i","o">>

\* lottery_analyzer.parse_prize_amount
parse_prize_amount(text) ==
    IF text = <<>> \/ Contains(no_tiene_premio, Lower(text)) THEN Dec(0)
    ELSE LET matches == euro_pattern_findall(text)
         IN IF matches # <<>>
            THEN LET amount == Float(Replace(matches[1], ",", "."))
                 IN IF amount = ValueError THEN Dec(0) ELSE amount
            ELSE Dec(0)

\* lottery_utils.parse_prize_amount
RECURSIVE utils_amounts(_)
utils_amounts(matches) ==
    IF matches = <<>> THEN <<>>
    ELSE LET amount == Float(Replace(matches[1], ",", "."))
         IN (IF amount = ValueError THEN <<>> ELSE <<amount>>) \o utils_amounts(Tail(matches))
RECURSIVE MaxOf(_)
MaxOf(amounts) ==
    IF Len(amounts) = 1 THEN amounts[1]
    ELSE DecMax(MaxOf(SubSeq(amounts, 1, Len(amounts) - 1)), amounts[Len(amounts)])
\* mutant: the first amount instead of the largest
utils_parse_prize_amount_first(text) == parse_prize_amount(text)
utils_parse_prize_amount(text) ==
    IF text = <<>> \/ Contains(no_tiene_premio, Lower(text)) THEN Dec(0)
    ELSE LET matches == euro_pattern_findall(text)
             amounts == utils_amounts(matches)
         IN IF matches # <<>> /\ amounts # <<>> THEN MaxOf(amounts) ELSE Dec(0)

\* has_prize = "no tiene premio" not in prize_text.lower()
has_prize(text) == ~Contains(no_tiene_premio, Lower(text))

(***************************************************************************)
(* The remote source.  A response is what requests.get meets:              *)
(*   exc          "none", or the exception requests.get raises             *)
(*   status_code  the HTTP status of the answer                            *)
(*   title        <<>> (no <title>) or <<text>>                            *)
(*   span         <<>> (no span.text-premio) or <<children>>, the children *)
(*                a sequence of nodes: a text node, a <br>, or the         *)
(*                div.text-premio-det with its text                        *)
(***************************************************************************)
TextNode(t) == [tag |-> "text", text |-> t]
BrNode == [tag |-> "br", text |-> <<>>]
DetNode(t) == [tag |-> "det", text |-> t]

\* requests.RequestException and the subclasses the transport raises
RequestException == {"Timeout", "ConnectionError", "HTTPError"}

\* response.raise_for_status(): HTTPError for a 4xx or 5xx status
raise_for_status(status_code) ==
    IF 400 <= status_code /\ status_code < 600 THEN "HTTPError" ELSE "none"

title_keywords == { <<"e","r","r","o","r">>,
                    <<"n","o"," ","e","n","c","o","n","t","r","a","d","o">>,
                    <<"n","o"," ","d","i","s","p","o","n","i","b","l","e">>,
                    <<"4","0","4">> }

\* element.get_text(): the text of every descendant, a <br> giving none;
\* with br_replaced each <br> has been replaced by " "
RECURSIVE get_text(_, _)
get_text(nodes, br_replaced) ==
    IF nodes = <<>> THEN <<>>
    ELSE (IF nodes[1].tag = "br"
          THEN (IF br_replaced THEN <<" ">> ELSE <<>>)
          ELSE nodes[1].text) \o get_text(Tail(nodes), br_replaced)

\* prize_span.find("div", class_="text-premio-det"): the first such child, or none
HasDet(nodes) == \E i \in 1..Len(nodes) : nodes[i].tag = "det"
FirstDet(nodes) ==
    nodes[CHOOSE i \in 1..Len(nodes) :
              nodes[i].tag = "det" /\ \A k \in 1..(i - 1) : nodes[k].tag # "det"]

None == [kind |-> "None"]
Raise(exc) == [kind |-> "Raise", exc |-> exc]

\* get_ticket_cost
get_ticket_cost(fecha) == Dec(6)

\* lottery_analyzer.fetch_lottery_data_for_date, lines 102-111: the text that is classified
analyzer_prize_text(nodes) ==
    IF HasDet(nodes)
    THEN SplitJoin(FirstDet(nodes).text)
    ELSE Strip(get_text(nodes, TRUE))

\* lottery_utils.fetch_lottery_data, lines 92-103
utils_prize_text(nodes) ==
    IF HasDet(nodes)
    THEN Strip(get_text(nodes, TRUE))
    ELSE Strip(get_text(nodes, TRUE))

\* the title check shared by both fetchers
title_blocked(title) ==
    /\ title # <<>>
    /\ \E keyword \in title_keywords : Contains(keyword, Lower(title[1]))

\* the text-length check shared by both fetchers
too_short(text) == text = <<>> \/ Len(Strip(text)) < 5

\* mutant: only HTTP status errors are caught, a timeout or a refused connection escapes
except_HTTPError_only(exc) ==
    IF exc = "HTTPError" THEN [kind |-> "None"] ELSE [kind |-> "Raise", exc |-> exc]
\* the except clause of both fetchers: except requests.RequestException -> return None
except_RequestException(exc) ==
    IF exc \in RequestException THEN None ELSE Raise(exc)

\* lottery_analyzer.fetch_lottery_data_for_date(numero, fecha) against a response
fetch_lottery_data_for_date(fecha, resp) ==
    IF resp.exc # "none" THEN except_RequestException(resp.exc)
    ELSE IF raise_for_status(resp.status_code) # "none"
         THEN except_RequestException(raise_for_status(resp.status_code))
    ELSE IF title_blocked(resp.title) THEN None
    ELSE IF resp.span = <<>> THEN None
    ELSE LET text == analyzer_prize_text(resp.span[1])
         IN IF too_short(text) THEN None
            ELSE [kind |-> "LotteryResult",
                  date |-> fecha,
                  prize_info |-> text,
                  has_prize |-> has_prize(text),
                  prize_amount |-> parse_prize_amount(text),
                  ticket_cost |-> get_ticket_cost(fecha)]

\* lottery_utils.fetch_lottery_data(numero, fecha) against a response
utils_fetch_lottery_data(fecha, resp) ==
    IF resp.exc # "none" THEN except_RequestException(resp.exc)
    ELSE IF raise_for_status(resp.status_code) # "none"
         THEN except_RequestException(raise_for_status(resp.status_code))
    ELSE IF title_blocked(resp.title) THEN None
    ELSE IF resp.span = <<>> THEN None
    ELSE LET text == utils_prize_text(resp.span[1])
         IN IF too_short(text) THEN None
            ELSE [kind |-> "dict",
                  fecha |-> fecha,
                  prize_info |-> text,
                  has_prize |-> has_prize(text),
                  prize_amount |-> utils_parse_prize_amount(text),
                  ticket_cost |-> get_ticket_cost(fecha)]

(***************************************************************************)
(* The answers the model draws from.                                       *)
(***************************************************************************)
TxtNoPrize == <<"N","o"," ","t","i","e","n","e"," ","p","r","e","m","i","o">>
TxtPremio == <<"P","r","e","m","i","o">>
Txt50 == <<"5","0","€">>
TxtPremio500 == <<"P","r","e","m","i","o"," ","d","e"," ","5","0","0","€">>
TxtPremios1000y50 == <<"P","r","e","m","i","o","s"," ","d","e"," ","1",",","0","0","0","€",
                       " ","y"," ","5","0","€">>
TxtOk == <<"o","k">>
TxtDet == <<" ","5","0","€"," ","a","l","\n","d","e","c","i","m","o"," ">>
TxtSerie == <<" ","5","0","0","€"," ","s","e","r","i","e">>

Titles == { <<>>,
            << <<"L","o","t","e","r","i","a">> >>,
            << <<"E","r","r","o","r"," ","4","0","4">> >>,
            << <<"N","o"," ","D","i","s","p","o","n","i","b","l","e">> >> }
Spans == { <<>>,
           << <<>> >>,
           << <<TextNode(TxtOk)>> >>,
           << <<TextNode(TxtNoPrize)>> >>,
           << <<TextNode(TxtPremio), BrNode, TextNode(Txt50)>> >>,
           << <<TextNode(TxtPremio500)>> >>,
           << <<TextNode(TxtPremios1000y50)>> >>,
           << <<TextNode(TxtPremio), DetNode(TxtDet), TextNode(TxtSerie)>> >>,
           << <<TextNode(TxtNoPrize), DetNode(Txt50)>> >>,
           << <<TextNode(TxtPremio500), DetNode(TxtOk)>> >>,
           << <<TextNode(TxtPremio500), BrNode, DetNode(TxtDet)>> >> }
StatusCodes == {200, 404, 500}
Answered == [exc : {"none"}, status_code : StatusCodes, title : Titles, span : Spans]
Failed == [exc : {"Timeout", "ConnectionError"}, status_code : {0}, title : {<<>>}, span : {<<>>}]
Responses == Answered \cup Failed

(***************************************************************************)
(* Saturday enumeration.                                                   *)
(***************************************************************************)
Saturday == 5
Weekday(d) == d % 7

\* mutant: the end of the range is excluded (current < end)
RECURSIVE date_range_loop_exclusive(_, _, _)
date_range_loop_exclusive(current, end, acc) ==
    IF current < end
    THEN date_range_loop_exclusive(current + 1, end,
                                   IF current % 7 = 5 THEN Append(acc, current) ELSE acc)
    ELSE acc
\* the while loop of generate_date_range
RECURSIVE date_range_loop(_, _, _)
date_range_loop(current, end, acc) ==
    IF current <= end
    THEN date_range_loop(current + 1, end,
                         IF Weekday(current) = Saturday THEN Append(acc, current) ELSE acc)
    ELSE acc

\* mutant: a reversed range is put in order instead of being empty
generate_date_range_swapping(start, end) ==
    IF start > end THEN date_range_loop(end, start, <<>>) ELSE date_range_loop(start, end, <<>>)
\* lottery_analyzer.generate_date_range
generate_date_range(start, end) == date_range_loop(start, end, <<>>)

\* lottery_utils.generate_date_range
utils_generate_date_range(start, end) == date_range_loop(start, end, <<>>)

\* mutant: a Saturday is its own previous Saturday (as lottery_utils.get_saturday_date has it)
previous_saturday_or_same(date) ==
    LET days_since_saturday == (Weekday(date) - Saturday) % 7
    IN IF days_since_saturday = 0 THEN date ELSE date - days_since_saturday
\* fetch_all_available_data, lines 199-204 (lottery_utils.get_previous_saturday is the same code)
previous_saturday(date) ==
    LET days_since_saturday == (Weekday(date) - Saturday) % 7
    IN IF days_since_saturday = 0 THEN date - 7 ELSE date - days_since_saturday

(***************************************************************************)
(* Aggregation.                                                            *)
(***************************************************************************)
max_consecutive_no_data_range == 5
max_consecutive_no_data_all == 10

\* a / b of two ints, a float kept as the reduced fraction num / den
RECURSIVE GCD(_, _)
GCD(a, b) == IF b = 0 THEN a ELSE GCD(b, a % b)
Frac(a, b) == LET g == GCD(a, b) IN [num |-> a \div g, den |-> b \div g]
ZeroDivisionError == [num |-> 0, den |-> 0]
TrueDiv(a, b) == IF b = 0 THEN ZeroDivisionError ELSE Frac(a, b)
Times(q, k) == IF q = ZeroDivisionError THEN q ELSE Frac(q.num * k, q.den)

\* mutant: the guard against an empty result list is missing
win_rate_expr_unguarded(w, rs) == Times(TrueDiv(w, Len(rs)), 100)
\* win_rate = (wins / len(results)) * 100 if results else 0
win_rate_expr(w, rs) ==
    IF rs # <<>> THEN Times(TrueDiv(w, Len(rs)), 100) ELSE Frac(0, 1)

\* mutant: the operands are swapped
net_profit_expr_swapped(won, spent) == DecSub(spent, won)
\* net_profit = total_won - total_spent
net_profit_expr(won, spent) == DecSub(won, spent)

\* mutant: total_tickets counts the wins instead of the results
LotteryAnalysis_TicketsAreWins(rs, spent, won, w, biggest, last) ==
    [total_tickets |-> w,
     total_spent |-> spent,
     total_won |-> won,
     net_profit |-> net_profit_expr(won, spent),
     win_rate |-> win_rate_expr(w, rs),
     biggest_prize |-> biggest,
     last_win_date |-> last,
     results |-> rs]
\* the LotteryAnalysis both entry points build on return
LotteryAnalysis(rs, spent, won, w, biggest, last) ==
    [total_tickets |-> Len(rs),
     total_spent |-> spent,
     total_won |-> won,
     net_profit |-> net_profit_expr(won, spent),
     win_rate |-> win_rate_expr(w, rs),
     biggest_prize |-> biggest,
     last_win_date |-> last,
     results |-> rs]

\* The answers an aggregation run meets: every way a request fails, and the
\* documents with no title and one of four prize regions.
AggSpans == { <<>>,
              << <<TextNode(TxtNoPrize)>> >>,
              << <<TextNode(TxtPremio), BrNode, TextNode(Txt50)>> >>,
              << <<TextNode(TxtPremio500)>> >> }
AggResponses == {r \in Responses : r.exc # "none" \/ (r.title = <<>> /\ r.span \in AggSpans)}

\* fetch_lottery_data_for_date over those answers; the answer does not depend
\* on the date, the date only stamps the result
FetchTable == {fetch_lottery_data_for_date(0, r) : r \in AggResponses}
Stamp(o, fecha) ==
    IF o.kind = "LotteryResult"
    THEN [o EXCEPT !.date = fecha, !.ticket_cost = get_ticket_cost(fecha)]
    ELSE o
FetchOutcomes(fecha) == {Stamp(o, fecha) : o \in FetchTable}

NowDays == Today..(Today + NowSpan)
RangeStarts == 0..MaxStart
RangeEnds(start) == {start - 8, start - 1, start + 3, start + RangeSpan}

\* find_earliest_available_data, line 153: the default of max_lookback_days
default_max_lookback_days == 365
\* main, line 403: how far back the range starts when the probe finds nothing
fallback_days == 180
Lookbacks == {0, MaxLookback, default_max_lookback_days}

\* what main reads from ANALYSIS_START_DATE and ANALYSIS_END_DATE (<<>> is unset)
EnvStartDates == {<<>>, <<Today - DayWindow>>}
EnvEndDates == {<<>>, <<Today + NowSpan>>}

\* the remote source as the open-ended walk sees it: the Saturdays with data,
\* counted in weeks back from the latest Saturday before today
SaturdayBefore(today) == CHOOSE d \in (today - 7)..(today - 1) : Weekday(d) = Saturday
DataWeeks == (0..MaxGap) \cup {max_consecutive_no_data_all - 1, max_consecutive_no_data_all,
                              max_consecutive_no_data_all + 1}
DataWorlds == {W \in SUBSET DataWeeks : Cardinality(W) <= MaxResults}
DataDays(today, W) == {SaturdayBefore(today) - 7 * w : w \in W}

callVars == <<caller, env_start_date, env_end_date>>
probeVars == <<max_lookback_days, probe_dates, earliest_date>>
walkVars == <<start_date, end_date, saturday_dates>>
accVars == <<results, total_spent, total_won, wins, biggest_prize, last_win_date>>
netVars == <<fetch_calls, in_flight, slept, back_to_back>>
harnessVars == <<parseVars, fetchVars, rangeVars>>

ResetAccumulators ==
    /\ results' = <<>>
    /\ total_spent' = Dec(0)
    /\ total_won' = Dec(0)
    /\ wins' = 0
    /\ biggest_prize' = Dec(0)
    /\ last_win_date' = <<>>
    /\ consecutive_no_data' = 0
    /\ fetch_calls' = 0
    /\ fetch_misses' = 0
    /\ fetch_log' = <<>>

\* fetch_lottery_data_for_date, line 81: requests.get is entered
Request ==
    /\ in_flight' = in_flight + 1
    /\ fetch_calls' = fetch_calls + 1
    /\ back_to_back' = (back_to_back \/ ~slept)
    /\ slept' = FALSE

\* fetch_lottery_data_for_date returns (or raises) for the date
Respond(date, result) ==
    /\ in_flight' = in_flight - 1
    /\ fetch_log' = Append(fetch_log, [date |-> date, hit |-> result.kind = "LotteryResult"])

\* lines 273-286 and 211-221: a result is folded into the accumulators
Fold(date, result) ==
    /\ results' = Append(results, result)
    /\ total_spent' = DecAdd(total_spent, result.ticket_cost)
    /\ IF result.has_prize
       THEN /\ total_won' = DecAdd(total_won, result.prize_amount)
            /\ wins' = wins + 1
            /\ last_win_date' = <<date>>
            /\ biggest_prize' = DecMax(biggest_prize, result.prize_amount)
       ELSE UNCHANGED <<total_won, wins, last_win_date, biggest_prize>>

\* main, lines 380-388: the environment is read (LOTTERY_NUMBER is set)
MainCall(start, end) ==
    /\ pc = "start"
    /\ caller' = "main"
    /\ env_start_date' = start
    /\ env_end_date' = end
    /\ pc' = "main"
    /\ UNCHANGED <<mode, now, idx, current_date, remote_data, consecutive_no_data, analysis,
                   fetch_misses, fetch_log, probeVars, walkVars, accVars, netVars, harnessVars>>

\* mutant: the probe list is built oldest first
RECURSIVE probe_dates_loop_oldest_first(_, _)
probe_dates_loop_oldest_first(current, start) ==
    IF current < start THEN <<>>
    ELSE IF current = start
    THEN IF Weekday(current) = Saturday THEN <<current>> ELSE <<>>
    ELSE LET mid == (current + start) \div 2
         IN probe_dates_loop_oldest_first(mid, start)
            \o probe_dates_loop_oldest_first(current, mid + 1)
\* find_earliest_available_data, lines 161-166: the while loop building dates, from
\* current down to start, a Saturday appended as it is met; the days are taken
\* by halves, the later half first, which keeps the order of the loop
RECURSIVE probe_dates_loop(_, _)
probe_dates_loop(current, start) ==
    IF current < start THEN <<>>
    ELSE IF current = start
    THEN IF Weekday(current) = Saturday THEN <<current>> ELSE <<>>
    ELSE LET mid == (current + start) \div 2
         IN probe_dates_loop(current, mid + 1) \o probe_dates_loop(mid, start)

\* find_earliest_available_data, lines 153-166
FindEarliestEnter(today, lookback) ==
    /\ mode' = "probe"
    /\ now' = today
    /\ max_lookback_days' = lookback
    /\ probe_dates' = probe_dates_loop(today, today - lookback)
    /\ idx' = 1
    /\ earliest_date' = <<>>
    /\ fetch_calls' = 0
    /\ fetch_misses' = 0
    /\ fetch_log' = <<>>
    /\ pc' = IF probe_dates' = <<>> THEN "probe_done" ELSE "probe_loop"
    /\ UNCHANGED <<current_date, remote_data, consecutive_no_data, analysis, in_flight, slept,
                   back_to_back, walkVars, accVars, harnessVars>>

FindEarliestCall(today, lookback) ==
    /\ pc = "start"
    /\ FindEarliestEnter(today, lookback)
    /\ UNCHANGED callVars

\* main, lines 396-398: no start date is set, the probe is called with its default
MainFindEarliest(today) ==
    /\ pc = "main"
    /\ ~(env_start_date = <<>> /\ env_end_date = <<>>)
    /\ env_start_date = <<>>
    /\ FindEarliestEnter(today, default_max_lookback_days)
    /\ UNCHANGED callVars

\* find_earliest_available_data, lines 169-170: the next date is requested
ProbeFetch ==
    /\ pc = "probe_loop"
    /\ Request
    /\ pc' = "probe_fetching"
    /\ UNCHANGED <<mode, now, idx, current_date, remote_data, consecutive_no_data, analysis,
                   fetch_misses, fetch_log, callVars, probeVars, walkVars, accVars, harnessVars>>

\* find_earliest_available_data, lines 170-180: the fetch returns; the rest of the iteration
ProbeStep ==
    /\ pc = "probe_fetching"
    /\ LET date == probe_dates[idx]
       IN \E result \in FetchOutcomes(date) :
            /\ (caller = "main" /\ result.kind = "LotteryResult") => idx <= MaxProbeHit
            /\ Respond(date, result)
            /\ IF result.kind = "Raise"
               THEN /\ pc' = "raised"
                    /\ UNCHANGED <<idx, earliest_date, fetch_misses, slept>>
               ELSE IF result.kind = "LotteryResult"
               THEN /\ earliest_date' = <<date>>
                    /\ pc' = "probe_done"
                    /\ UNCHANGED <<idx, fetch_misses, slept>>
               ELSE /\ slept' = TRUE
                    /\ fetch_misses' = fetch_misses + 1
                    /\ idx' = idx + 1
                    /\ pc' = IF idx + 1 > Len(probe_dates) THEN "probe_done" ELSE "probe_loop"
                    /\ UNCHANGED earliest_date
    /\ UNCHANGED <<mode, now, current_date, remote_data, consecutive_no_data, analysis,
                   fetch_calls, back_to_back, max_lookback_days, probe_dates, callVars, walkVars,
                   accVars, harnessVars>>

\* analyze_lottery_history, lines 253-268
AnalyzeEnter(start, end) ==
    /\ mode' = "range"
    /\ start_date' = start
    /\ end_date' = end
    /\ saturday_dates' = generate_date_range(start, end)
    /\ idx' = 1
    /\ ResetAccumulators
    /\ pc' = IF saturday_dates' = <<>> THEN "range_return" ELSE "range_loop"
    /\ UNCHANGED <<current_date, remote_data, analysis, in_flight, slept, back_to_back,
                   callVars, probeVars, harnessVars>>

AnalyzeCall(start, end) ==
    /\ pc = "start"
    /\ AnalyzeEnter(start, end)
    /\ UNCHANGED now

\* main, lines 406-410 with ANALYSIS_START_DATE set
MainAnalyze(today) ==
    /\ pc = "main"
    /\ env_start_date # <<>>
    /\ now' = today
    /\ AnalyzeEnter(env_start_date[1],
                    IF env_end_date = <<>> THEN today ELSE env_end_date[1])

\* main, lines 399-410 after the probe has returned
MainAnalyzeProbed(today) ==
    /\ pc = "probe_done"
    /\ caller = "main"
    /\ today >= now
    /\ now' = today
    /\ AnalyzeEnter(IF earliest_date # <<>> THEN earliest_date[1] ELSE today - fallback_days,
                    IF env_end_date = <<>> THEN today ELSE env_end_date[1])

\* analyze_lottery_history, lines 270-271: the next date is requested
AnalyzeFetch ==
    /\ pc = "range_loop"
    /\ Request
    /\ pc' = "range_fetching"
    /\ UNCHANGED <<mode, now, idx, current_date, remote_data, consecutive_no_data, analysis,
                   fetch_misses, fetch_log, callVars, probeVars, walkVars, accVars, harnessVars>>

\* mutant: the run of misses must exceed the limit before the loop breaks
range_break_late(consecutive) == consecutive > max_consecutive_no_data_range
\* analyze_lottery_history, line 292
range_break(consecutive) == consecutive >= max_consecutive_no_data_range

\* analyze_lottery_history, lines 271-298: the fetch returns; the rest of the iteration
AnalyzeStep ==
    /\ pc = "range_fetching"
    /\ LET date == saturday_dates[idx]
           more == IF idx + 1 > Len(saturday_dates) THEN "range_return" ELSE "range_loop"
       IN \E result \in FetchOutcomes(date) :
            /\ (caller = "main" /\ result.kind = "LotteryResult") => Len(results) < MaxResults
            /\ Respond(date, result)
            /\ IF result.kind = "Raise"
               THEN /\ pc' = "raised"
                    /\ UNCHANGED <<idx, consecutive_no_data, fetch_misses, slept, accVars>>
               ELSE IF result.kind = "LotteryResult"
               THEN /\ consecutive_no_data' = 0
                    /\ Fold(date, result)
                    /\ slept' = TRUE
                    /\ idx' = idx + 1
                    /\ pc' = more
                    /\ UNCHANGED fetch_misses
               ELSE /\ consecutive_no_data' = consecutive_no_data + 1
                    /\ fetch_misses' = fetch_misses + 1
                    /\ IF range_break(consecutive_no_data')
                       THEN pc' = "range_return" /\ idx' = idx /\ UNCHANGED slept
                       ELSE pc' = more /\ idx' = idx + 1 /\ slept' = TRUE
                    /\ UNCHANGED accVars
    /\ UNCHANGED <<mode, now, current_date, remote_data, analysis, fetch_calls, back_to_back,
                   callVars, probeVars, walkVars, harnessVars>>

\* the return of either entry point: lines 300-313 and 237-250
ReturnAnalysis ==
    LET a == LotteryAnalysis(results, total_spent, total_won, wins, biggest_prize,
                             last_win_date)
    IN IF a.win_rate = ZeroDivisionError
       THEN pc' = "raised" /\ analysis' = <<>>
       ELSE pc' = "done" /\ analysis' = <<a>>

\* analyze_lottery_history, lines 300-313
AnalyzeReturn ==
    /\ pc = "range_return"
    /\ ReturnAnalysis
    /\ UNCHANGED <<mode, now, idx, current_date, remote_data, consecutive_no_data,
                   fetch_misses, fetch_log, callVars, probeVars, walkVars, accVars, netVars,
                   harnessVars>>

\* fetch_all_available_data, lines 183-195, against a remote source with the given data
FetchAllEnter(today, data) ==
    /\ mode' = "all"
    /\ now' = today
    /\ current_date' = today
    /\ remote_data' = data
    /\ ResetAccumulators
    /\ pc' = "all_loop"
    /\ UNCHANGED <<idx, analysis, in_flight, slept, back_to_back, callVars, probeVars, walkVars,
                   harnessVars>>

FetchAllCall(today, data) ==
    /\ pc = "start"
    /\ FetchAllEnter(today, data)

\* main, lines 391-393: neither date is set
MainFetchAll(today, data) ==
    /\ pc = "main"
    /\ env_start_date = <<>> /\ env_end_date = <<>>
    /\ FetchAllEnter(today, data)

\* mutant: the loop goes on while the run of misses is within the limit
all_loop_condition_inclusive(consecutive) == consecutive <= max_consecutive_no_data_all
\* fetch_all_available_data, line 197: the while condition
all_loop_condition(consecutive) == consecutive < max_consecutive_no_data_all

\* fetch_all_available_data, lines 197-209: the previous Saturday is requested
FetchAllFetch ==
    /\ pc = "all_loop"
    /\ all_loop_condition(consecutive_no_data)
    /\ Request
    /\ pc' = "all_fetching"
    /\ UNCHANGED <<mode, now, idx, current_date, remote_data, consecutive_no_data, analysis,
                   fetch_misses, fetch_log, callVars, probeVars, walkVars, accVars, harnessVars>>

\* fetch_all_available_data, lines 199-233: the fetch returns; the rest of the iteration
FetchAllStep ==
    /\ pc = "all_fetching"
    /\ LET saturday_date == previous_saturday(current_date)
           date_str == saturday_date
       IN \E result \in FetchOutcomes(date_str) :
            /\ result.kind = "LotteryResult" <=> date_str \in remote_data
            /\ Respond(date_str, result)
            /\ IF result.kind = "Raise"
               THEN /\ pc' = "raised"
                    /\ UNCHANGED <<current_date, consecutive_no_data, fetch_misses, slept,
                                   accVars>>
               ELSE /\ IF result.kind = "LotteryResult"
                       THEN /\ consecutive_no_data' = 0
                            /\ Fold(date_str, result)
                            /\ UNCHANGED fetch_misses
                       ELSE /\ consecutive_no_data' = consecutive_no_data + 1
                            /\ fetch_misses' = fetch_misses + 1
                            /\ UNCHANGED accVars
                    /\ current_date' = saturday_date
                    /\ slept' = TRUE
                    /\ pc' = IF all_loop_condition(consecutive_no_data')
                             THEN "all_loop" ELSE "all_return"
    /\ UNCHANGED <<mode, now, idx, remote_data, analysis, fetch_calls, back_to_back, callVars,
                   probeVars, walkVars, harnessVars>>

\* fetch_all_available_data, lines 235-250
FetchAllReturn ==
    /\ pc = "all_return"
    /\ ReturnAnalysis
    /\ UNCHANGED <<mode, now, idx, current_date, remote_data, consecutive_no_data,
                   fetch_misses, fetch_log, callVars, probeVars, walkVars, accVars, netVars,
                   harnessVars>>

AggIdleRest ==
    /\ caller = "none"
    /\ env_start_date = <<>>
    /\ env_end_date = <<>>
    /\ now = 0
    /\ max_lookback_days = 0
    /\ probe_dates = <<>>
    /\ earliest_date = <<>>
    /\ saturday_dates = <<>>
    /\ idx = 1
    /\ current_date = 0
    /\ remote_data = {}
    /\ results = <<>>
    /\ total_spent = Dec(0)
    /\ total_won = Dec(0)
    /\ wins = 0
    /\ biggest_prize = Dec(0)
    /\ last_win_date = <<>>
    /\ consecutive_no_data = 0
    /\ analysis = <<>>
    /\ fetch_calls = 0
    /\ fetch_misses = 0
    /\ fetch_log = <<>>
    /\ in_flight = 0
    /\ slept = TRUE
    /\ back_to_back = FALSE
AggIdle ==
    /\ start_date = 0
    /\ end_date = 0
    /\ AggIdleRest
Unset == [analyzer |-> <<>>, utils |-> <<>>]
ParseIdle == prize_text = <<>> /\ classified = Unset
FetchIdle == response = None /\ fetched = Unset
RangeIdle == dates = Unset

Init ==
    /\ pc = "start"
    /\ mode = "none"
    /\ AggIdle
    /\ ParseIdle
    /\ FetchIdle
    /\ RangeIdle

Next ==
    \/ \E start \in EnvStartDates : \E end \in EnvEndDates : MainCall(start, end)
    \/ \E today \in NowDays : \E lookback \in Lookbacks : FindEarliestCall(today, lookback)
    \/ \E today \in NowDays : MainFindEarliest(today)
    \/ ProbeFetch
    \/ ProbeStep
    \/ \E start \in RangeStarts : \E end \in RangeEnds(start) : AnalyzeCall(start, end)
    \/ \E today \in NowDays : MainAnalyze(today)
    \/ \E today \in NowDays : MainAnalyzeProbed(today)
    \/ AnalyzeFetch
    \/ AnalyzeStep
    \/ AnalyzeReturn
    \/ \E today \in NowDays : \E W \in DataWorlds : FetchAllCall(today, DataDays(today, W))
    \/ \E today \in NowDays : \E W \in DataWorlds : MainFetchAll(today, DataDays(today, W))
    \/ FetchAllFetch
    \/ FetchAllStep
    \/ FetchAllReturn

Spec == Init /\ [][Next]_vars

(***************************************************************************)
(* The parser on its own: a text is drawn, and each module classifies it   *)
(* (has_prize and parse_prize_amount, as the fetchers do).                 *)
(***************************************************************************)
TxtMarkerMixed == <<"N","o"," ","T","i","e","n","e"," ","P","R","E","M","I","O">>
Pieces == { <<"5">>, <<"0">>, <<",">>, <<"€">>, <<" ">>, <<"x">>, TxtMarkerMixed }
RECURSIVE Concats(_)
Concats(k) ==
    IF k = 0 THEN {<<>>}
    ELSE LET prev == Concats(k - 1) IN prev \cup {p \o t : p \in Pieces, t \in prev}
TxtPremios50y500 == <<"P","r","e","m","i","o","s"," ","d","e"," ","5","0","€",
                      " ","y"," ","5","0","0","€">>
SampleTexts == {TxtPremios1000y50, TxtPremio500, TxtNoPrize, TxtPremios50y500}
Texts == Concats(MaxPieces) \cup SampleTexts

\* lottery_analyzer.py, lines 118-119
analyzer_classify(text) == [won |-> has_prize(text), amount |-> parse_prize_amount(text)]
\* lottery_utils.py, lines 110-111
utils_classify(text) == [won |-> has_prize(text), amount |-> utils_parse_prize_amount(text)]

ClassifyAnalyzer ==
    /\ pc = "start"
    /\ classified' = [classified EXCEPT !.analyzer = <<analyzer_classify(prize_text)>>]
    /\ pc' = "analyzer_done"
    /\ UNCHANGED <<mode, aggVars, prize_text, fetchVars, rangeVars>>

ClassifyUtils ==
    /\ pc = "analyzer_done"
    /\ classified' = [classified EXCEPT !.utils = <<utils_classify(prize_text)>>]
    /\ pc' = "done"
    /\ UNCHANGED <<mode, aggVars, prize_text, fetchVars, rangeVars>>

InitParse ==
    /\ pc = "start"
    /\ mode = "parse"
    /\ AggIdle
    /\ prize_text \in Texts
    /\ classified = Unset
    /\ FetchIdle
    /\ RangeIdle

NextParse == ClassifyAnalyzer \/ ClassifyUtils

SpecParse == InitParse /\ [][NextParse]_vars

(***************************************************************************)
(* One fetch on its own: an answer is drawn, and each module's fetcher is  *)
(* run against it for the same Saturday.                                   *)
(***************************************************************************)
FetchAnalyzer ==
    /\ pc = "start"
    /\ fetched' = [fetched EXCEPT !.analyzer = <<fetch_lottery_data_for_date(Saturday, response)>>]
    /\ pc' = "analyzer_done"
    /\ UNCHANGED <<mode, aggVars, parseVars, response, rangeVars>>

FetchUtils ==
    /\ pc = "analyzer_done"
    /\ fetched' = [fetched EXCEPT !.utils = <<utils_fetch_lottery_data(Saturday, response)>>]
    /\ pc' = "done"
    /\ UNCHANGED <<mode, aggVars, parseVars, response, rangeVars>>

InitFetch ==
    /\ pc = "start"
    /\ mode = "fetch"
    /\ AggIdle
    /\ ParseIdle
    /\ response \in Responses
    /\ fetched = Unset
    /\ RangeIdle

NextFetch == FetchAnalyzer \/ FetchUtils

SpecFetch == InitFetch /\ [][NextFetch]_vars

(***************************************************************************)
(* The enumeration on its own: start and end are drawn, and each module's  *)
(* generate_date_range is applied.                                         *)
(***************************************************************************)
GenerateAnalyzer ==
    /\ pc = "start"
    /\ dates' = [dates EXCEPT !.analyzer = <<generate_date_range(start_date, end_date)>>]
    /\ pc' = "analyzer_done"
    /\ UNCHANGED <<mode, aggVars, parseVars, fetchVars>>

GenerateUtils ==
    /\ pc = "analyzer_done"
    /\ dates' = [dates EXCEPT !.utils = <<utils_generate_date_range(start_date, end_date)>>]
    /\ pc' = "done"
    /\ UNCHANGED <<mode, aggVars, parseVars, fetchVars>>

InitRange ==
    /\ pc = "start"
    /\ mode = "dates"
    /\ start_date \in 0..DayWindow
    /\ end_date \in 0..DayWindow
    /\ AggIdleRest
    /\ ParseIdle
    /\ FetchIdle
    /\ dates = Unset

NextRange == GenerateAnalyzer \/ GenerateUtils

SpecRange == InitRange /\ [][NextRange]_vars

(***************************************************************************)
(* Properties.                                                             *)
(***************************************************************************)
Returned == analysis # <<>>
WonIndices(rs) == {i \in 1..Len(rs) : rs[i].has_prize}
WonDates(rs) == {rs[i].date : i \in WonIndices(rs)}
MaxDate(S) == CHOOSE d \in S : \A e \in S : e <= d
RECURSIVE SumWon(_)
SumWon(rs) ==
    IF rs = <<>> THEN Dec(0)
    ELSE LET rest == SumWon(SubSeq(rs, 1, Len(rs) - 1))
             last == rs[Len(rs)]
         IN IF last.has_prize THEN DecAdd(rest, last.prize_amount) ELSE rest
SortedByDate(rs) == \A i, j \in 1..Len(rs) : i < j => rs[i].date <= rs[j].date

\* C1: in every Analysis returned by either aggregation entry point the
\* outcomes are in non-decreasing date order.
C1_OutcomesSortedByDate == Returned => SortedByDate(analysis[1].results)

\* The range walk alone does return its outcomes in ascending date order.
RangeOutcomesSortedByDate == (Returned /\ mode = "range") => SortedByDate(analysis[1].results)

\* C2: in every returned Analysis lastWinDate is the date of the latest outcome
\* that won, and is absent when no outcome won.
C2_LastWinDateIsLatestWin ==
    Returned =>
        LET a == analysis[1]
        IN IF WonDates(a.results) = {}
           THEN a.last_win_date = <<>>
           ELSE a.last_win_date = <<MaxDate(WonDates(a.results))>>

\* The range walk alone does report the latest win.
RangeLastWinDateIsLatestWin ==
    (Returned /\ mode = "range") =>
        LET a == analysis[1]
        IN IF WonDates(a.results) = {}
           THEN a.last_win_date = <<>>
           ELSE a.last_win_date = <<MaxDate(WonDates(a.results))>>

\* C3: in every returned Analysis totalTickets is the number of outcomes,
\* totalSpent is totalTickets times the ticket cost 6, and the dates whose fetch
\* failed count in neither: the tickets are the fetches made less the failures.
C3_TicketsAndSpent ==
    Returned =>
        LET a == analysis[1]
        IN /\ a.total_tickets = Len(a.results)
           /\ a.total_spent = Dec(6 * a.total_tickets)
           /\ a.total_tickets = fetch_calls - fetch_misses
C3_Witness ==
    /\ Returned
    /\ analysis[1].total_tickets >= 2
    /\ fetch_misses >= 1

\* C4: in every returned Analysis netProfit is totalWon minus totalSpent, and
\* totalWon is the sum of the prize amounts of the outcomes that won.
C4_NetProfit ==
    Returned =>
        LET a == analysis[1]
        IN /\ a.net_profit = DecSub(a.total_won, a.total_spent)
           /\ a.total_won = SumWon(a.results)
C4_Witness ==
    /\ Returned
    /\ Cardinality(WonIndices(analysis[1].results)) >= 2
    /\ fetch_misses >= 1
    /\ analysis[1].net_profit.n > 0

\* C5: returning never divides by zero; winRate is 0 when there is no ticket and
\* otherwise 100 * (won outcomes) / totalTickets, which lies in [0, 100].
C5_WinRate ==
    /\ pc # "raised"
    /\ Returned =>
        LET a == analysis[1]
            won == Cardinality(WonIndices(a.results))
        IN /\ a.total_tickets = 0 => a.win_rate = Frac(0, 1)
           /\ a.total_tickets > 0 =>
                  a.win_rate.num * a.total_tickets = 100 * won * a.win_rate.den
           /\ a.win_rate.den > 0
           /\ 0 <= a.win_rate.num
           /\ a.win_rate.num <= 100 * a.win_rate.den
C5_Witness ==
    /\ Returned
    /\ analysis[1].total_tickets = 0
    /\ fetch_misses >= 1

\* The amounts of all currency tokens of a text, and the largest of them.
TokenAmounts(text) ==
    LET ms == euro_pattern_findall(text)
    IN {Float(Replace(ms[i], ",", ".")) : i \in 1..Len(ms)}
LargestAmount(S) == CHOOSE v \in S : \A w \in S : ~DecLess(v, w)
ExpectedAmount(text) ==
    IF Contains(no_tiene_premio, Lower(text)) \/ TokenAmounts(text) = {}
    THEN Dec(0)
    ELSE LargestAmount(TokenAmounts(text))

\* C6: parse_prize_amount, in every module that defines it, returns 0 for a text
\* with the no-prize marker (in any case) and otherwise the largest of the
\* currency amounts found in the text, or 0 when there is none.
C6_ParserReturnsLargest ==
    /\ classified.analyzer # <<>> =>
           classified.analyzer[1].amount = ExpectedAmount(prize_text)
    /\ classified.utils # <<>> =>
           classified.utils[1].amount = ExpectedAmount(prize_text)

\* lottery_utils.parse_prize_amount alone does return the largest amount.
UtilsParserReturnsLargest ==
    classified.utils # <<>> => classified.utils[1].amount = ExpectedAmount(prize_text)

\* C7 as stated: "Premios de 1,000€ y 50€" classifies as won with amount 1000.0
\* and "Premio de 500€" as won with amount 500.0, in both modules.
C7_AsStated ==
    pc = "done" =>
        /\ prize_text = TxtPremios1000y50 =>
               /\ classified.analyzer[1] = [won |-> TRUE, amount |-> Dec(1000)]
               /\ classified.utils[1] = [won |-> TRUE, amount |-> Dec(1000)]
        /\ prize_text = TxtPremio500 =>
               /\ classified.analyzer[1] = [won |-> TRUE, amount |-> Dec(500)]
               /\ classified.utils[1] = [won |-> TRUE, amount |-> Dec(500)]

\* C7 amended: "Premios de 1,000€ y 50€" classifies as won in both modules, the
\* comma being the decimal separator so that 1,000 reads 1.0: lottery_utils
\* gives the largest amount 50.0 and lottery_analyzer the first amount 1.0;
\* "Premio de 500€" classifies as won with amount 500.0 in both.
C7_Classify ==
    pc = "done" =>
        /\ prize_text = TxtPremios1000y50 =>
               /\ classified.analyzer[1] = [won |-> TRUE, amount |-> Dec(1)]
               /\ classified.utils[1] = [won |-> TRUE, amount |-> Dec(50)]
        /\ prize_text = TxtPremio500 =>
               /\ classified.analyzer[1] = [won |-> TRUE, amount |-> Dec(500)]
               /\ classified.utils[1] = [won |-> TRUE, amount |-> Dec(500)]
C7_Witness ==
    /\ pc = "done"
    /\ prize_text = TxtPremios1000y50
    /\ classified.utils[1].amount = Dec(50)

\* The conditions under which a fetch has no data, read off the response.
RequestFails(resp) == resp.exc # "none"
Non2xx(resp) == resp.exc = "none" /\ ~(200 <= resp.status_code /\ resp.status_code <= 299)
TitleBlocked(resp) ==
    /\ resp.title # <<>>
    /\ \E k \in title_keywords : Contains(k, Lower(resp.title[1]))
RegionAbsent(resp) == resp.span = <<>>
NoData(resp, extracted(_)) ==
    \/ RequestFails(resp)
    \/ Non2xx(resp)
    \/ TitleBlocked(resp)
    \/ RegionAbsent(resp)
    \/ extracted(resp.span[1]) = <<>>
    \/ Len(extracted(resp.span[1])) < 5

ExactlyTheSaturdays(ds, start, end) ==
    /\ \A i, j \in 1..Len(ds) : i < j => ds[i] < ds[j]
    /\ {ds[i] : i \in 1..Len(ds)} = {d \in start..end : d % 7 = 5}
C9_SaturdaysInRange ==
    start_date <= end_date =>
        /\ dates.analyzer # <<>> => ExactlyTheSaturdays(dates.analyzer[1], start_date, end_date)
        /\ dates.utils # <<>> => ExactlyTheSaturdays(dates.utils[1], start_date, end_date)
C9_Witness ==
    /\ pc = "done"
    /\ end_date % 7 = 5
    /\ start_date % 7 = 5
    /\ Len(dates.analyzer[1]) >= 3
    /\ Len(dates.utils[1]) >= 3

\* C10 as stated: with start > end the enumeration fails, and a range
\* aggregation raises instead of returning an Analysis.
C10_AsStated ==
    (mode = "range" /\ start_date > end_date) => (pc = "raised" /\ analysis = <<>>)

\* C10 amended: with start > end generate_date_range returns the empty list
\* without raising, and a range aggregation fetches nothing and returns the
\* zero-valued Analysis.
C10_ReversedRangeIsEmpty ==
    (mode = "range" /\ start_date > end_date) =>
        /\ saturday_dates = <<>>
        /\ pc \in {"range_return", "done"}
        /\ fetch_calls = 0
        /\ pc = "done" =>
               analysis = << [total_tickets |-> 0,
                              total_spent |-> Dec(0),
                              total_won |-> Dec(0),
                              net_profit |-> Dec(0),
                              win_rate |-> Frac(0, 1),
                              biggest_prize |-> Dec(0),
                              last_win_date |-> <<>>,
                              results |-> <<>>] >>
C10_Witness ==
    /\ mode = "range"
    /\ start_date > end_date + 7
    /\ pc = "done"
    /\ Returned

(***************************************************************************)
(* The availability probe.                                                 *)
(***************************************************************************)
ProbeReturned == mode = "probe" /\ pc = "probe_done"
ProbeWindow == {d \in (now - max_lookback_days)..now : Weekday(d) = Saturday}
NewestFirst(S) ==
    [i \in 1..Cardinality(S) |-> CHOOSE d \in S : Cardinality({e \in S : e > d}) = i - 1]
LogDates == [i \in 1..Len(fetch_log) |-> fetch_log[i].date]
IsPrefix(s, t) == Len(s) <= Len(t) /\ \A i \in 1..Len(s) : s[i] = t[i]
Misses(log) == \A i \in 1..Len(log) : ~log[i].hit

RECURSIVE TrailingMisses(_)
TrailingMisses(log) ==
    IF log = <<>> \/ log[Len(log)].hit THEN 0
    ELSE 1 + TrailingMisses(SubSeq(log, 1, Len(log) - 1))
ByDate(R) ==
    [i \in 1..Cardinality(R) |->
        CHOOSE r \in R : Cardinality({s \in R : s.date < r.date}) = i - 1]
\* the Analysis as a function of the set of results alone
AnalysisOf(R) ==
    LET rs == ByDate(R)
        prizes == {r.prize_amount : r \in {s \in R : s.has_prize}}
    IN [total_tickets |-> Cardinality(R),
        total_spent |-> Dec(6 * Cardinality(R)),
        total_won |-> SumWon(rs),
        net_profit |-> DecSub(SumWon(rs), Dec(6 * Cardinality(R))),
        win_rate |-> IF R = {} THEN Frac(0, 1)
                     ELSE Frac(100 * Cardinality(WonIndices(rs)), Cardinality(R)),
        biggest_prize |-> IF prizes = {} THEN Dec(0) ELSE LargestAmount(prizes),
        last_win_date |-> IF WonDates(rs) = {} THEN <<>> ELSE <<MaxDate(WonDates(rs))>>,
        results |-> rs]
RangeReturned == mode = "range" /\ Returned
ResultSet == {results[i] : i \in 1..Len(results)}

\* C12 as stated: at most 5 fetches are in flight at any moment, a returned range
\* aggregation has dispatched one fetch for every enumerated date, and its Analysis
\* is a function of the per-date results alone.
C12_AsStated ==
    /\ in_flight <= 5
    /\ RangeReturned => fetch_calls = Len(saturday_dates)
    /\ RangeReturned => analysis[1] = AnalysisOf(ResultSet)

\* C12: a range aggregation fetches one date at a time: at most one fetch is in flight,
\* the dates are requested in enumeration order, each at most once, and a date is
\* left without a fetch only when the five fetches before it all failed; the fetches
\* complete in the order they are requested, and the returned Analysis is a function
\* of the per-date results alone.
C12_SequentialDispatch ==
    mode = "range" =>
        /\ in_flight <= 1
        /\ (in_flight = 1) <=> (pc = "range_fetching")
        /\ fetch_calls = Len(fetch_log) + in_flight
        /\ fetch_calls <= Len(saturday_dates)
        /\ LogDates = SubSeq(saturday_dates, 1, Len(fetch_log))
        /\ (Returned /\ fetch_calls < Len(saturday_dates)) =>
               TrailingMisses(fetch_log) = max_consecutive_no_data_range
        /\ Returned => analysis[1] = AnalysisOf(ResultSet)

\* a range aggregation that returns tickets and has left dates without a fetch
C12_Witness ==
    /\ RangeReturned
    /\ analysis[1].total_tickets >= 1
    /\ fetch_calls < Len(saturday_dates)

Walking == mode \in {"range", "all"}
MissLimit ==
    IF mode = "range" THEN max_consecutive_no_data_range ELSE max_consecutive_no_data_all
Stopped == pc \in {"range_return", "all_return", "done"}

\* C13: in both walks the count of consecutive misses is the number of failed fetches
\* since the last successful one (a success resets it to 0) and never exceeds N, with
\* N = 5 in analyze_lottery_history and N = 10 in fetch_all_available_data; the walk
\* has stopped whenever the last N fetches all failed, no fetch is requested or made
\* after N consecutive failures, and a walk stops on fewer than N consecutive failures
\* only when the range walk has fetched every date of its range.
C13_ConsecutiveMissStop ==
    Walking =>
        /\ consecutive_no_data = TrailingMisses(fetch_log)
        /\ consecutive_no_data <= MissLimit
        /\ TrailingMisses(fetch_log) = MissLimit => Stopped
        /\ in_flight > 0 => TrailingMisses(fetch_log) < MissLimit
        /\ \A k \in 0..(Len(fetch_log) - 1) :
               TrailingMisses(SubSeq(fetch_log, 1, k)) < MissLimit
        /\ Stopped =>
               \/ TrailingMisses(fetch_log) = MissLimit
               \/ mode = "range" /\ Len(fetch_log) = Len(saturday_dates)

\* an open-ended walk that met data after nine misses, went on, and stopped ten
\* misses later
C13_Witness ==
    /\ mode = "all"
    /\ Returned
    /\ Len(fetch_log) = 2 * max_consecutive_no_data_all
    /\ fetch_log[max_consecutive_no_data_all].hit

(***************************************************************************)
(* The text a fetch classifies.                                            *)
(***************************************************************************)
\* the whole prize region as text, its line breaks replaced by spaces
RegionText(nodes) == Strip(get_text(nodes, TRUE))
HasDetRegion == response.span # <<>> /\ HasDet(response.span[1])

\* C14: when the prize region holds a win-detail element, a fetch that builds a result
\* decides has_prize and computes prize_amount from the text of the whole region,
\* in lottery_analyzer as in lottery_utils.
C14_FullRegionText ==
    HasDetRegion =>
        /\ (fetched.analyzer # <<>> /\ fetched.analyzer[1].kind = "LotteryResult") =>
               /\ fetched.analyzer[1].has_prize = has_prize(RegionText(response.span[1]))
               /\ fetched.analyzer[1].prize_amount =
                      parse_prize_amount(RegionText(response.span[1]))
        /\ (fetched.utils # <<>> /\ fetched.utils[1].kind = "dict") =>
               /\ fetched.utils[1].has_prize = has_prize(RegionText(response.span[1]))
               /\ fetched.utils[1].prize_amount =
                      utils_parse_prize_amount(RegionText(response.span[1]))

\* lottery_utils alone does classify the whole region.
UtilsFullRegionText ==
    (HasDetRegion /\ fetched.utils # <<>> /\ fetched.utils[1].kind = "dict") =>
        /\ fetched.utils[1].prize_info = RegionText(response.span[1])
        /\ fetched.utils[1].has_prize = has_prize(RegionText(response.span[1]))
        /\ fetched.utils[1].prize_amount =
               utils_parse_prize_amount(RegionText(response.span[1]))

(***************************************************************************)
(* The pause between requests.                                             *)
(***************************************************************************)
\* C15: in the probe, in both walks and in main's chaining of the probe into the
\* range walk, no fetch is requested after the previous one without a time.sleep
\* in between.
C15_PauseBetweenFetches == ~back_to_back

\* Inside one entry point, and in main's other paths, the pause is always there:
\* a request without a pause needs main to go from a probe that found a date
\* into the range walk.
PauseWithinEntryPoint ==
    back_to_back => (caller = "main" /\ mode = "range" /\ earliest_date # <<>>)

(***************************************************************************)
(* The open-ended walk on its own, which keeps running: a call that is     *)
(* made is carried through, and requests.get returns within its timeout.   *)
(***************************************************************************)
NextAll ==
    \/ \E today \in NowDays : \E W \in DataWorlds : FetchAllCall(today, DataDays(today, W))
    \/ FetchAllFetch
    \/ FetchAllStep
    \/ FetchAllReturn

SpecAll == Init /\ [][NextAll]_vars /\ WF_vars(NextAll)

OldestData == CHOOSE d \in remote_data : \A e \in remote_data : d <= e
AllHits(log) == \A i \in 1..Len(log) : log[i].hit
\* the k-th Saturday the walk is to visit: the latest one before today, then 7 days back each
VisitDate(k) == SaturdayBefore(now) - 7 * (k - 1)

\* the walk through the Saturdays, in every state of fetch_all_available_data
BackwardWalk ==
    mode = "all" =>
        /\ \A i \in 1..Len(fetch_log) :
               /\ fetch_log[i].date = VisitDate(i)
               /\ Weekday(fetch_log[i].date) = Saturday
               /\ fetch_log[i].date < now
               /\ fetch_log[i].hit <=> fetch_log[i].date \in remote_data
        /\ pc = "all_fetching" => previous_saturday(current_date) = VisitDate(Len(fetch_log) + 1)
        /\ Stopped <=> TrailingMisses(fetch_log) = max_consecutive_no_data_all
        /\ \A k \in 0..(Len(fetch_log) - 1) :
               TrailingMisses(SubSeq(fetch_log, 1, k)) < max_consecutive_no_data_all
        /\ (fetch_log # <<>> /\ AllHits(fetch_log)) => ~Stopped
        /\ Returned =>
               /\ Len(fetch_log) >= max_consecutive_no_data_all
               /\ Misses(SubSeq(fetch_log, Len(fetch_log) - max_consecutive_no_data_all + 1,
                                Len(fetch_log)))
               /\ Len(fetch_log) > max_consecutive_no_data_all =>
                      fetch_log[Len(fetch_log) - max_consecutive_no_data_all].hit

\* C16 as stated, its last part: with finitely many Saturdays with data the walk
\* returns exactly 10 fetches past the oldest of them.
C16_AsStated ==
    (mode = "all" /\ Returned /\ remote_data # {}) =>
        \E i \in 1..Len(fetch_log) :
            /\ fetch_log[i].date = OldestData
            /\ Len(fetch_log) = i + max_consecutive_no_data_all

\* C16: fetch_all_available_data visits the latest Saturday strictly before today and
\* then each Saturday 7 days before the last; it has stopped exactly when the last 10
\* visited Saturdays yielded no data, so it does not stop while every visited Saturday
\* has data; with finitely many Saturdays with data it does return, exactly 10 fetches
\* past the last visited Saturday that had data (10 fetches in all when none had):
\* data lying 10 or more Saturdays behind that one is never visited.
C16_BackwardWalk ==
    /\ []BackwardWalk
    /\ (mode = "all") ~> (mode = "all" /\ Returned)

\* a walk that returned results while older data lay behind a gap of ten Saturdays
C16_Witness ==
    /\ mode = "all"
    /\ Returned
    /\ analysis[1].total_tickets >= 1
    /\ \E d \in remote_data : \A i \in 1..Len(fetch_log) : fetch_log[i].date # d
====
